---- MODULE Spec2Model ----
(***************************************************************************)
(* A model of the OpenAI-compatible embeddings gateway of src/app.py:      *)
(* the bearer-token gate, the model-identity resolution and the handlers   *)
(* of /meta, /v1/models and /v1/embeddings.                                *)
(*                                                                         *)
(* Strings are sequences of symbols.  A symbol is one character (" ", ",", *)
(* "/", "a", ...) or an atomic run of characters that the code never looks *)
(* inside ("minishlab", "potion-base-8M", the fixed parts of a message).   *)
(* An optional value is a record [some, val].                              *)
(* A float32 is its IEEE-754 bit pattern, most significant byte first.     *)
(***************************************************************************)
EXTENDS Integers, Sequences, FiniteSets

VARIABLES
    phase,           \* "boot" before lifespan() has run, "serving" after
    envTokens,       \* os.environ AUTHENTICATION_ALLOWED_TOKENS (optional string)
    envModel,        \* os.environ MODEL_NAME (optional string)
    metaRec,         \* what meta_config.get() returns: the optional "model_path"
    allowed_tokens,  \* the module global allowed_tokens (optional list of strings)
    request,         \* the request being served (NoRequest between requests)
    response,        \* what its handler returned, with what the handler touched
    listed           \* the id the last 200 answer of /v1/models carried (optional)

vars == <<phase, envTokens, envModel, metaRec, allowed_tokens, request, response, listed>>

(***************************************************************************)
(* Bounds of the model.                                                    *)
(***************************************************************************)
\* longest value of AUTHENTICATION_ALLOWED_TOKENS explored under SpecAuth
MaxCfgLen == 3
\* longest credential explored under SpecAuth
MaxCredLen == 2
\* longest list given as "input"
MaxBatch == 2
\* width of the rows the embedding backend produces
W == 2

(***************************************************************************)
(* Optional values.                                                        *)
(***************************************************************************)
None == [some |-> FALSE, val |-> <<>>]
Some(v) == [some |-> TRUE, val |-> v]
NoInt == [some |-> FALSE, val |-> 0]

Range(s) == {s[i] : i \in 1..Len(s)}

RECURSIVE SeqsUpTo(_, _)
\* every sequence over S of length at most n
SeqsUpTo(S, n) ==
    IF n = 0 THEN {<<>>}
    ELSE LET shorter == SeqsUpTo(S, n - 1)
         IN  shorter \cup {Append(s, x) : s \in {t \in shorter : Len(t) = n - 1}, x \in S}

(***************************************************************************)
(* str methods, as CPython computes them.                                  *)
(***************************************************************************)
IsSpace(c) == c = " "

RECURSIVE lstrip(_)
lstrip(s) == IF s # <<>> /\ IsSpace(Head(s)) THEN lstrip(Tail(s)) ELSE s

RECURSIVE rstrip(_)
rstrip(s) ==
    IF s # <<>> /\ IsSpace(s[Len(s)]) THEN rstrip(SubSeq(s, 1, Len(s) - 1)) ELSE s

\* str.strip()
strip(s) == rstrip(lstrip(s))

RECURSIVE split_sep(_, _)
\* str.split(sep): the pieces between the separators, empty pieces kept
split_sep(s, sep) ==
    IF \A i \in 1..Len(s) : s[i] # sep THEN <<s>>
    ELSE LET i == CHOOSE k \in 1..Len(s) : s[k] = sep /\ \A j \in 1..(k - 1) : s[j] # sep
         IN  <<SubSeq(s, 1, i - 1)>> \o split_sep(SubSeq(s, i + 1, Len(s)), sep)

RECURSIVE skip_word(_)
skip_word(s) == IF s # <<>> /\ ~IsSpace(Head(s)) THEN skip_word(Tail(s)) ELSE s

RECURSIVE split_ws_count(_)
\* len(str.split()): skip the whitespace, take a word, repeat
split_ws_count(s) ==
    LET t == lstrip(s)
    IN  IF t = <<>> THEN 0 ELSE 1 + split_ws_count(skip_word(t))

\* str.startswith(prefix)
startswith(s, prefix) == Len(s) >= Len(prefix) /\ SubSeq(s, 1, Len(prefix)) = prefix

(***************************************************************************)
(* AuthGate.                                                               *)
(***************************************************************************)
\* os.getenv(name, "")
getenv_or_empty(env) == IF env.some THEN env.val ELSE <<>>

\* a variant that also strips every token
get_allowed_tokens_strip_each(env) ==
    LET tokens == strip(getenv_or_empty(env))
        parts == split_sep(strip(tokens), ",")
    IN  IF tokens # <<>> THEN Some([i \in 1..Len(parts) |-> strip(parts[i])]) ELSE None

get_allowed_tokens(env) ==
    LET tokens == strip(getenv_or_empty(env))
    IN  IF tokens # <<>> THEN Some(split_sep(strip(tokens), ",")) ELSE None

\* a variant that only checks that a credential is present
is_authorized_presence_only(allowed, auth) ==
    IF allowed.some /\ ~auth.some THEN FALSE ELSE TRUE

is_authorized(allowed, auth) ==
    IF allowed.some /\ (~auth.some \/ auth.val \notin Range(allowed.val))
    THEN FALSE
    ELSE TRUE

(***************************************************************************)
(* ModelResolver.                                                          *)
(***************************************************************************)
DefaultModel == <<"minishlab", "/", "potion-base-8M">>

\* Python truthiness of an optional string: None and "" are falsy
truthy(opt) == opt.some /\ opt.val # <<>>

\* whether get_available_model() calls meta_config.get()
reads_meta(env) == ~truthy(env)

\* the name before the path rule: MODEL_NAME, else config.get("model_path", default)
raw_model_name(env, rec) ==
    IF truthy(env) THEN env.val
    ELSE IF rec.some THEN rec.val ELSE DefaultModel

get_available_model(env, rec) ==
    LET model_name == raw_model_name(env, rec)
    IN  IF "/" \in Range(model_name) /\ ~startswith(model_name, <<"minishlab", "/">>)
        THEN DefaultModel
        ELSE model_name

(***************************************************************************)
(* Responses.  "touched" records what the handler did on the way: whether  *)
(* it read the metadata record, resolved the model identity, invoked the   *)
(* embedding backend.                                                      *)
(***************************************************************************)
HTTP_200_OK == 200
HTTP_204_NO_CONTENT == 204
HTTP_400_BAD_REQUEST == 400
HTTP_401_UNAUTHORIZED == 401
HTTP_500_INTERNAL_SERVER_ERROR == 500

Untouched == [meta |-> FALSE, resolved |-> FALSE, backend |-> FALSE]

NoUsage == [prompt_tokens |-> 0, total_tokens |-> 0]

\* {"error": message} with the status the handler set
ErrorResponse(st, message, touched) ==
    [status |-> st, kind |-> "error", error |-> message, data |-> <<>>,
     model |-> <<>>, usage |-> NoUsage, meta |-> None, touched |-> touched]

Unauthorized == ErrorResponse(HTTP_401_UNAUTHORIZED, <<"Unauthorized">>, Untouched)

\* the state of response/request before any handler has run
NoResponse ==
    [status |-> 0, kind |-> "none", error |-> <<>>, data |-> <<>>,
     model |-> <<>>, usage |-> NoUsage, meta |-> None, touched |-> Untouched]

(***************************************************************************)
(* GET /.well-known/live, /.well-known/ready and GET /meta.                *)
(***************************************************************************)
live_and_ready ==
    [status |-> HTTP_204_NO_CONTENT, kind |-> "empty", error |-> <<>>, data |-> <<>>,
     model |-> <<>>, usage |-> NoUsage, meta |-> None, touched |-> Untouched]

meta(allowed, rec, auth) ==
    IF is_authorized(allowed, auth)
    THEN [status |-> HTTP_200_OK, kind |-> "meta", error |-> <<>>, data |-> <<>>,
          model |-> <<>>, usage |-> NoUsage, meta |-> rec,
          touched |-> [Untouched EXCEPT !.meta = TRUE]]
    ELSE Unauthorized

(***************************************************************************)
(* GET /v1/models, /models.                                                *)
(***************************************************************************)
ModelEntry(name) ==
    [id |-> name, object |-> "model", created |-> 1700000000,
     owned_by |-> "minishlab", root |-> name]

\* a variant that lists the name without the path rule
list_models_raw_name(allowed, env, rec, auth) ==
    IF is_authorized(allowed, auth)
    THEN [status |-> HTTP_200_OK, kind |-> "models", error |-> <<>>,
          data |-> <<ModelEntry(raw_model_name(env, rec))>>,
          model |-> <<>>, usage |-> NoUsage, meta |-> None,
          touched |-> [meta |-> reads_meta(env), resolved |-> TRUE, backend |-> FALSE]]
    ELSE Unauthorized

\* get_available_model() does not raise on a metadata record whose model_path is
\* absent or a string, so the except branch (500) is never taken here
list_models(allowed, env, rec, auth) ==
    IF is_authorized(allowed, auth)
    THEN LET model_display_name == get_available_model(env, rec)
         IN  [status |-> HTTP_200_OK, kind |-> "models", error |-> <<>>,
              data |-> <<ModelEntry(model_display_name)>>,
              model |-> <<>>, usage |-> NoUsage, meta |-> None,
              touched |-> [meta |-> reads_meta(env), resolved |-> TRUE, backend |-> FALSE]]
    ELSE Unauthorized

(***************************************************************************)
(* The embedding backend, vec.vectorize: a black box that maps every input *)
(* text to a row of W float32 values, one row per input text, in input     *)
(* order, or raises.                                                       *)
(***************************************************************************)
\* float32 values: 0.0, 1.0, -1.0, 0.5, pi
Floats == << <<0, 0, 0, 0>>, <<63, 128, 0, 0>>, <<191, 128, 0, 0>>,
             <<63, 0, 0, 0>>, <<64, 73, 15, 219>> >>

\* the row of one text: it depends on the text, and its components differ
Embedding(text) ==
    [j \in 1..W |-> Floats[((Len(text) + split_ws_count(text) + j) % Len(Floats)) + 1]]

\* item.input is [kind, val]: a list of strings (kind "list", val the list) or a
\* scalar string (kind "str", val the one-element sequence holding the string)
ScalarOf(input) == input.val[1]

\* what the backend sees: the texts of a list, the one text of a scalar string
TextsOf(input) == IF input.kind = "list" THEN input.val ELSE <<ScalarOf(input)>>

vectorize(input) == [i \in 1..Len(TextsOf(input)) |-> Embedding(TextsOf(input)[i])]

(***************************************************************************)
(* Output shaping of POST /v1/embeddings.                                  *)
(***************************************************************************)
\* Python's seq[:n]
py_slice_to(row, n) ==
    IF n >= 0
    THEN SubSeq(row, 1, IF n < Len(row) THEN n ELSE Len(row))
    ELSE SubSeq(row, 1, IF Len(row) + n > 0 THEN Len(row) + n ELSE 0)

\* a variant that slices whenever dimensions is truthy
truncate_any_nonzero(vector, dimensions) ==
    IF dimensions.some /\ dimensions.val # 0
    THEN [i \in 1..Len(vector) |-> py_slice_to(vector[i], dimensions.val)]
    ELSE vector

\* if item.dimensions and item.dimensions > 0: vector = vector[:, :item.dimensions]
truncate(vector, dimensions) ==
    IF (dimensions.some /\ dimensions.val # 0) /\ dimensions.val > 0
    THEN [i \in 1..Len(vector) |-> py_slice_to(vector[i], dimensions.val)]
    ELSE vector

RECURSIVE tobytes(_)
\* np.array(embedding, dtype=np.float32).tobytes(): little-endian, value after value
tobytes(row) ==
    IF row = <<>> THEN <<>>
    ELSE LET f == Head(row) IN <<f[4], f[3], f[2], f[1]>> \o tobytes(Tail(row))

B64Alphabet ==
    << "A","B","C","D","E","F","G","H","I","J","K","L","M","N","O","P",
       "Q","R","S","T","U","V","W","X","Y","Z","a","b","c","d","e","f",
       "g","h","i","j","k","l","m","n","o","p","q","r","s","t","u","v",
       "w","x","y","z","0","1","2","3","4","5","6","7","8","9","+","/" >>

RECURSIVE b64encode(_)
\* base64.b64encode: three bytes to four characters, "=" padding at the end
b64encode(bytes) ==
    IF bytes = <<>> THEN <<>>
    ELSE IF Len(bytes) = 1 THEN
        << B64Alphabet[(bytes[1] \div 4) + 1],
           B64Alphabet[((bytes[1] % 4) * 16) + 1], "=", "=" >>
    ELSE IF Len(bytes) = 2 THEN
        << B64Alphabet[(bytes[1] \div 4) + 1],
           B64Alphabet[((bytes[1] % 4) * 16 + bytes[2] \div 16) + 1],
           B64Alphabet[((bytes[2] % 16) * 4) + 1], "=" >>
    ELSE
        << B64Alphabet[(bytes[1] \div 4) + 1],
           B64Alphabet[((bytes[1] % 4) * 16 + bytes[2] \div 16) + 1],
           B64Alphabet[((bytes[2] % 16) * 4 + bytes[3] \div 64) + 1],
           B64Alphabet[(bytes[3] % 64) + 1] >>
        \o b64encode(SubSeq(bytes, 4, Len(bytes)))

\* a variant that numbers the entries from 1
encode_data_from_one(vector_list, encoding_format) ==
    [i \in 1..Len(vector_list) |->
        [object |-> "embedding", index |-> i,
         embedding |-> IF encoding_format = "base64"
                       THEN b64encode(tobytes(vector_list[i]))
                       ELSE vector_list[i]]]

\* the two enumerate loops: entry number i (from 0) carries row i
encode_data(vector_list, encoding_format) ==
    [i \in 1..Len(vector_list) |->
        [object |-> "embedding", index |-> i - 1,
         embedding |-> IF encoding_format = "base64"
                       THEN b64encode(tobytes(vector_list[i]))
                       ELSE vector_list[i]]]

RECURSIVE sum_tokens(_)
\* sum(len(text.split()) for text in input_texts)
sum_tokens(input_texts) ==
    IF input_texts = <<>> THEN 0
    ELSE split_ws_count(Head(input_texts)) + sum_tokens(Tail(input_texts))

\* a variant that takes list(item.input) of a scalar string too: its characters
count_tokens_iterating_str(input) ==
    IF input.kind = "list" THEN sum_tokens(input.val)
    ELSE sum_tokens([i \in 1..Len(ScalarOf(input)) |-> <<ScalarOf(input)[i]>>])

\* input_texts = list(item.input) for a tuple, [item.input] otherwise
count_tokens(input) ==
    IF input.kind = "list" THEN sum_tokens(input.val)
    ELSE sum_tokens(<<ScalarOf(input)>>)

(***************************************************************************)
(* POST /v1/embeddings, /embeddings.                                       *)
(***************************************************************************)
\* a variant whose message names only the requested model
model_not_found_requested_only(requested, available) ==
    <<"Model '">> \o requested \o <<"' not found.">>

\* f"Model '{item.model}' not found. Available model: '{available_model}'"
model_not_found(requested, available) ==
    <<"Model '">> \o requested \o <<"' not found. Available model: '">>
        \o available \o <<"'">>

encoding_format_message == <<"encoding_format must be 'float' or 'base64'">>

Passed == [failed |-> FALSE, error |-> <<>>]

\* a variant that checks encoding_format before the model
embed_validate_format_first(item, available) ==
    IF item.encoding_format \notin {"float", "base64"}
    THEN [failed |-> TRUE, error |-> encoding_format_message]
    ELSE IF item.model # available
    THEN [failed |-> TRUE, error |-> model_not_found(item.model, available)]
    ELSE Passed

\* the checks made before the backend is invoked, in the order of the code
embed_validate(item, available) ==
    IF item.model # available
    THEN [failed |-> TRUE, error |-> model_not_found(item.model, available)]
    ELSE IF item.encoding_format \notin {"float", "base64"}
    THEN [failed |-> TRUE, error |-> encoding_format_message]
    ELSE Passed

\* a variant that forgets to set the status code
on_exception_status_unset(message, touched) ==
    ErrorResponse(HTTP_200_OK, message, touched)

\* except Exception as e: 500 and {"error": str(e)}
on_exception(message, touched) ==
    ErrorResponse(HTTP_500_INTERNAL_SERVER_ERROR, message, touched)

\* str(e) of what vec.vectorize raised
BackendFailure == <<"backend failure">>

\* backend is "ok" (vec.vectorize returns its matrix) or "raise" (it raises)
embed(allowed, env, rec, item, auth, backend) ==
    IF is_authorized(allowed, auth)
    THEN LET available_model == get_available_model(env, rec)
             resolved == [meta |-> reads_meta(env), resolved |-> TRUE, backend |-> FALSE]
             invoked == [resolved EXCEPT !.backend = TRUE]
             checked == embed_validate(item, available_model)
         IN  IF checked.failed
             THEN ErrorResponse(HTTP_400_BAD_REQUEST, checked.error, resolved)
             ELSE IF backend # "ok"
             THEN on_exception(BackendFailure, invoked)
             ELSE LET vector == truncate(vectorize(item.input), item.dimensions)
                      total_tokens == count_tokens(item.input)
                  IN  [status |-> HTTP_200_OK, kind |-> "embeddings", error |-> <<>>,
                       data |-> encode_data(vector, item.encoding_format),
                       model |-> item.model,
                       usage |-> [prompt_tokens |-> total_tokens,
                                  total_tokens |-> total_tokens],
                       meta |-> None, touched |-> invoked]
    ELSE Unauthorized

(***************************************************************************)
(* The inputs explored.                                                    *)
(***************************************************************************)
\* values of AUTHENTICATION_ALLOWED_TOKENS: unset, "", "a,b"
EnvTokenValues == {None, Some(<<>>), Some(<<"a", ",", "b">>)}

\* values of MODEL_NAME: unset, "", "custom", "/models"
EnvModelValues == {None, Some(<<>>), Some(<<"custom">>), Some(<<"/", "models">>)}

\* the metadata record: no model_path, "minishlab/potion-base-2M", "./models"
MetaValues ==
    {None, Some(<<"minishlab", "/", "potion-base-2M">>), Some(<<".", "/", "models">>)}

\* the bearer credential of a request: none, "a", "c"
Creds == {None, Some(<<"a">>), Some(<<"c">>)}

RequestedModels ==
    {DefaultModel, <<"custom">>, <<"minishlab", "/", "potion-base-2M">>,
     <<"invalid-model">>}

EncodingFormats == {"float", "base64", "hex"}

Dimensions == {NoInt} \cup {[some |-> TRUE, val |-> d] : d \in (-1)..(W + 1)}

\* "", "ab", " a  b"
Texts == {<<>>, <<"a", "b">>, <<" ", "a", " ", " ", "b">>}

Inputs ==
    {[kind |-> "str", val |-> <<t>>] : t \in Texts}
        \cup {[kind |-> "list", val |-> l] : l \in SeqsUpTo(Texts, MaxBatch)}

\* the body of POST /v1/embeddings; "config" is handed to the backend as it is and
\* read nowhere in the handler
Items ==
    [input : Inputs, model : RequestedModels, encoding_format : EncodingFormats,
     dimensions : Dimensions]

NoItem ==
    [input |-> [kind |-> "str", val |-> << <<>> >>], model |-> <<>>,
     encoding_format |-> "float", dimensions |-> NoInt]

NoRequest == [endpoint |-> "none", auth |-> None, item |-> NoItem, backend |-> "unused"]

CfgAlphabet == {"a", ",", " "}

\* the configurations of SpecAuth: unset, or any string of at most MaxCfgLen symbols
AuthEnvTokenValues == {None} \cup {Some(s) : s \in SeqsUpTo(CfgAlphabet, MaxCfgLen)}

\* the credentials of SpecAuth: none, or a non-empty string (HTTPBearer gives None
\* for an empty one)
AuthCreds ==
    {None} \cup {Some(s) : s \in SeqsUpTo(CfgAlphabet, MaxCredLen) \ {<<>>}}

(***************************************************************************)
(* The state machine.                                                      *)
(***************************************************************************)
Init ==
    /\ phase = "boot"
    /\ envTokens \in EnvTokenValues
    /\ envModel \in EnvModelValues
    /\ metaRec \in MetaValues
    /\ allowed_tokens = None
    /\ request = NoRequest
    /\ response = NoResponse
    /\ listed = None

\* lifespan(): the allow-list is read once, before any request is served
Lifespan ==
    /\ phase = "boot"
    /\ phase' = "serving"
    /\ allowed_tokens' = get_allowed_tokens(envTokens)
    /\ UNCHANGED <<envTokens, envModel, metaRec, request, response, listed>>

\* the server is up and no request is being served
Idle == phase = "serving" /\ request = NoRequest

LiveAndReady ==
    /\ Idle
    /\ request' = [NoRequest EXCEPT !.endpoint = "live"]
    /\ response' = live_and_ready
    /\ UNCHANGED <<phase, envTokens, envModel, metaRec, allowed_tokens, listed>>

GetMeta(auth) ==
    /\ Idle
    /\ request' = [NoRequest EXCEPT !.endpoint = "meta", !.auth = auth]
    /\ response' = meta(allowed_tokens, metaRec, auth)
    /\ UNCHANGED <<phase, envTokens, envModel, metaRec, allowed_tokens, listed>>

ListModels(auth) ==
    /\ Idle
    /\ request' = [NoRequest EXCEPT !.endpoint = "models", !.auth = auth]
    /\ response' = list_models(allowed_tokens, envModel, metaRec, auth)
    /\ listed' = IF response'.status = HTTP_200_OK
                 THEN Some(response'.data[1].id)
                 ELSE listed
    /\ UNCHANGED <<phase, envTokens, envModel, metaRec, allowed_tokens>>

\* the backend's outcome is drawn only when the handler invokes the backend
Embed(item, auth) ==
    /\ Idle
    /\ \E backend \in {"ok", "raise", "unused"} :
        LET r == embed(allowed_tokens, envModel, metaRec, item, auth, backend)
        IN  /\ (backend = "unused") = ~r.touched.backend
            /\ request' = [endpoint |-> "embeddings", auth |-> auth, item |-> item,
                           backend |-> backend]
            /\ response' = r
    /\ UNCHANGED <<phase, envTokens, envModel, metaRec, allowed_tokens, listed>>

\* the response is sent and the request, with all that belongs to it, is discarded
Respond ==
    /\ phase = "serving"
    /\ request # NoRequest
    /\ request' = NoRequest
    /\ response' = NoResponse
    /\ UNCHANGED <<phase, envTokens, envModel, metaRec, allowed_tokens, listed>>

Next ==
    \/ Lifespan
    \/ Respond
    \/ LiveAndReady
    \/ Idle /\ \E auth \in Creds : GetMeta(auth)
    \/ Idle /\ \E auth \in Creds : ListModels(auth)
    \/ Idle /\ \E item \in Items, auth \in Creds : Embed(item, auth)

Spec == Init /\ [][Next]_vars

\* the bearer gate alone, over every configuration and credential up to the bounds
InitAuth ==
    /\ phase = "boot"
    /\ envTokens \in AuthEnvTokenValues
    /\ envModel = None
    /\ metaRec = None
    /\ allowed_tokens = None
    /\ request = NoRequest
    /\ response = NoResponse
    /\ listed = None

NextAuth ==
    \/ Lifespan
    \/ Respond
    \/ Idle /\ \E auth \in AuthCreds : GetMeta(auth)
    \/ Idle /\ \E auth \in AuthCreds : ListModels(auth)

SpecAuth == InitAuth /\ [][NextAuth]_vars

(***************************************************************************)
(* What the properties below read off a state.                             *)
(***************************************************************************)
Guarded == {"meta", "models", "embeddings"}

\* authorization of the request being served fails: an allow-list is in force and
\* the request carries no credential or one that is none of its entries
AuthFails ==
    /\ allowed_tokens.some
    /\ \/ ~request.auth.some
       \/ \A i \in 1..Len(allowed_tokens.val) : allowed_tokens.val[i] # request.auth.val

AuthorizedEmbed == request.endpoint = "embeddings" /\ ~AuthFails

ResolvedModel == get_available_model(envModel, metaRec)

\* sub occurs in msg as a contiguous run
Contains(msg, sub) ==
    \E p \in 1..(Len(msg) - Len(sub) + 1) : SubSeq(msg, p, p + Len(sub) - 1) = sub

IsModelMismatch(r) ==
    r.status = 400 /\ r.kind = "error" /\ r.error # <<>> /\ r.error[1] = "Model '"

IsBadFormat(r) ==
    r.status = 400 /\ r.kind = "error" /\ r.error = encoding_format_message

NumInputs(input) == IF input.kind = "list" THEN Len(input.val) ELSE 1

\* the i-th source string of the request
SourceText(input, i) == IF input.kind = "list" THEN input.val[i] ELSE input.val[1]

EmptyInput(input) ==
    IF input.kind = "list" THEN input.val = <<>> ELSE input.val[1] = <<>>

B64Value(ch) == (CHOOSE k \in 1..64 : B64Alphabet[k] = ch) - 1

RECURSIVE B64Decode(_)
\* the bytes a base64 text stands for
B64Decode(cs) ==
    IF cs = <<>> THEN <<>>
    ELSE LET a == B64Value(cs[1])
             b == B64Value(cs[2])
         IN  IF cs[3] = "=" THEN << a * 4 + b \div 16 >>
             ELSE LET c == B64Value(cs[3])
                  IN  IF cs[4] = "="
                      THEN << a * 4 + b \div 16, (b % 16) * 16 + c \div 4 >>
                      ELSE << a * 4 + b \div 16, (b % 16) * 16 + c \div 4,
                              (c % 4) * 64 + B64Value(cs[4]) >>
                           \o B64Decode(SubSeq(cs, 5, Len(cs)))

RECURSIVE FromBytes(_)
\* the float32 values of a little-endian byte buffer
FromBytes(bytes) ==
    IF Len(bytes) < 4 THEN <<>>
    ELSE << <<bytes[4], bytes[3], bytes[2], bytes[1]>> >>
         \o FromBytes(SubSeq(bytes, 5, Len(bytes)))

\* the float32 values a data entry carries, whatever its wire format
Decoded(entry, encoding_format) ==
    IF encoding_format = "base64" THEN FromBytes(B64Decode(entry.embedding))
    ELSE entry.embedding

Min(a, b) == IF a < b THEN a ELSE b

\* the row the response owes for a backend row: its first min(d, width) components
\* for a present d > 0, the whole row otherwise
ExpectedRow(row, dimensions) ==
    IF dimensions.some /\ dimensions.val > 0
    THEN [j \in 1..Min(dimensions.val, Len(row)) |-> row[j]]
    ELSE row

\* the positions where a whitespace-delimited token starts
TokenStarts(text) ==
    {i \in 1..Len(text) : text[i] # " " /\ (i = 1 \/ text[i - 1] = " ")}

\* the sum over the source strings of their numbers of tokens
TotalTokens(input) ==
    Cardinality(UNION {{<<k, i>> : i \in TokenStarts(SourceText(input, k))} :
                          k \in 1..NumInputs(input)})

Ok200 == request.endpoint = "embeddings" /\ response.status = 200

(***************************************************************************)
(* C1.  A request to a guarded endpoint whose authorization fails is       *)
(* answered 401 with {"error": "Unauthorized"}, and its handler has done   *)
(* nothing else: it has not read the metadata record, not resolved the     *)
(* model identity, not invoked the backend.                                *)
(***************************************************************************)
C1_UnauthorizedIs401 ==
    (request.endpoint \in Guarded /\ AuthFails) =>
        /\ response.status = 401
        /\ response.kind = "error"
        /\ response.error = <<"Unauthorized">>
        /\ response.data = <<>>
        /\ ~response.touched.meta
        /\ ~response.touched.resolved
        /\ ~response.touched.backend

\* an embeddings request that carries a credential outside the allow-list
C1_Witness ==
    /\ request.endpoint = "embeddings"
    /\ request.auth.some
    /\ AuthFails
    /\ request.item.model = ResolvedModel
    /\ response.status = 401

(***************************************************************************)
(* C2.  The gate, read off the status of a guarded GET (200 when           *)
(* is_authorized returned True, 401 when it returned False).               *)
(***************************************************************************)
\* c is one of the pieces of s between its commas
IsTokenOf(c, s) ==
    /\ \A i \in 1..Len(c) : c[i] # ","
    /\ \E p \in 1..(Len(s) + 1) :
        /\ p + Len(c) - 1 <= Len(s)
        /\ SubSeq(s, p, p + Len(c) - 1) = c
        /\ (p = 1 \/ s[p - 1] = ",")
        /\ (p + Len(c) = Len(s) + 1 \/ s[p + Len(c)] = ",")

\* s without its leading and trailing whitespace
Trimmed(s) ==
    LET solid == {i \in 1..Len(s) : s[i] # " "}
    IN  IF solid = {} THEN <<>>
        ELSE SubSeq(s, CHOOSE a \in solid : \A i \in solid : a <= i,
                       CHOOSE b \in solid : \A i \in solid : i <= b)

GateAnswered == request.endpoint \in {"meta", "models"}

\* C2 as stated: the gate lets everything pass when the allow-list setting is unset
\* or empty, and otherwise passes exactly the present credentials that equal one of
\* the comma-separated tokens of the setting.
C2_AsStated ==
    GateAnswered =>
        ((response.status = 200) <=>
            \/ ~envTokens.some
            \/ envTokens.val = <<>>
            \/ request.auth.some /\ IsTokenOf(request.auth.val, envTokens.val))

\* C2 as amended: the setting is first stripped of its leading and trailing
\* whitespace as a whole; the gate lets everything pass when the setting is unset or
\* nothing is left of it, and otherwise passes exactly the present credentials that
\* equal one of the comma-separated tokens of the stripped setting (a token is not
\* stripped on its own).
C2_TokensOfStrippedSetting ==
    GateAnswered =>
        ((response.status = 200) <=>
            \/ ~envTokens.some
            \/ Trimmed(envTokens.val) = <<>>
            \/ request.auth.some /\ IsTokenOf(request.auth.val, Trimmed(envTokens.val)))

\* the setting " a," and the credential "a": passed only because the setting is
\* stripped before it is split
C2_Witness ==
    /\ request.endpoint = "meta"
    /\ envTokens = Some(<<" ", "a", ",">>)
    /\ request.auth = Some(<<"a">>)
    /\ response.status = 200

(***************************************************************************)
(* C3.  An authorized embeddings request whose model is not the resolved   *)
(* model identity is answered 400 with a message that contains the         *)
(* requested name and the resolved name.                                   *)
(***************************************************************************)
C3_MismatchNamesBoth ==
    (AuthorizedEmbed /\ request.item.model # ResolvedModel) =>
        /\ response.status = 400
        /\ response.kind = "error"
        /\ Contains(response.error, request.item.model)
        /\ Contains(response.error, ResolvedModel)

C3_Witness ==
    /\ AuthorizedEmbed
    /\ request.item.model = <<"invalid-model">>
    /\ ResolvedModel = <<"custom">>
    /\ response.status = 400

(***************************************************************************)
(* C4.  An authorized GET /v1/models answers 200 with exactly one entry,   *)
(* and the id it carried is the one model value POST /v1/embeddings        *)
(* accepts afterwards: a request with that id never fails the model check, *)
(* a request with any other model is answered 400.                         *)
(***************************************************************************)
C4_ListedIdIsAccepted ==
    /\ (request.endpoint = "models" /\ ~AuthFails) =>
            /\ response.status = 200
            /\ Len(response.data) = 1
            /\ response.data[1].root = response.data[1].id
            /\ listed = Some(response.data[1].id)
    /\ (AuthorizedEmbed /\ listed.some) =>
            /\ request.item.model = listed.val => ~IsModelMismatch(response)
            /\ request.item.model # listed.val => response.status = 400

\* after a listing, an embeddings request with the listed id is served
C4_Witness ==
    /\ AuthorizedEmbed
    /\ listed.some
    /\ request.item.model = listed.val
    /\ envModel = Some(<<"/", "models">>)
    /\ response.status = 200

(***************************************************************************)
(* C5.  An authorized embeddings request with the resolved model, a valid  *)
(* encoding_format and an empty input (an empty string or an empty list)   *)
(* is answered 400 with an {"error": message} body, and the backend is not *)
(* invoked for it.                                                         *)
(***************************************************************************)
C5_EmptyInputRejected ==
    ( /\ AuthorizedEmbed
      /\ request.item.model = ResolvedModel
      /\ request.item.encoding_format \in {"float", "base64"}
      /\ EmptyInput(request.item.input) ) =>
        /\ response.status = 400
        /\ response.kind = "error"
        /\ ~response.touched.backend

(***************************************************************************)
(* C6.  In every 200 answer of the embeddings endpoint, in either format,  *)
(* data has one entry per input string (one for a scalar string), entry i  *)
(* has index i, and entry i carries the row the backend produced for input *)
(* string i (cut to the requested dimensions).                             *)
(***************************************************************************)
C6_DataFollowsInputOrder ==
    Ok200 =>
        /\ Len(response.data) = NumInputs(request.item.input)
        /\ \A i \in 1..Len(response.data) :
            /\ response.data[i].index = i - 1
            /\ Decoded(response.data[i], request.item.encoding_format)
                 = ExpectedRow(Embedding(SourceText(request.item.input, i)),
                               request.item.dimensions)

\* a base64 answer for two different texts
C6_Witness ==
    /\ Ok200
    /\ request.item.encoding_format = "base64"
    /\ request.item.input.kind = "list"
    /\ Len(response.data) = 2
    /\ request.item.input.val[1] # request.item.input.val[2]
    /\ response.data[2].index = 1

(***************************************************************************)
(* C7.  With rows of width W from the backend: when dimensions is present  *)
(* and > 0 every returned embedding is exactly the first                   *)
(* min(dimensions, W) components of its backend row, in order, never       *)
(* padded; when dimensions is absent, 0 or negative every returned         *)
(* embedding is the whole row of width W.                                  *)
(***************************************************************************)
C7_TruncationKeepsPrefix ==
    Ok200 =>
        \A i \in 1..Len(response.data) :
            LET e == Decoded(response.data[i], request.item.encoding_format)
                row == vectorize(request.item.input)[i]
                d == request.item.dimensions
            IN  /\ Len(row) = W
                /\ IF d.some /\ d.val > 0
                   THEN /\ Len(e) = Min(d.val, W)
                        /\ \A j \in 1..Len(e) : e[j] = row[j]
                   ELSE e = row

\* more dimensions asked for than the backend has: the whole row, not padded
C7_Witness ==
    /\ Ok200
    /\ request.item.dimensions = Some(W + 1)
    /\ Len(response.data) = 1
    /\ Len(Decoded(response.data[1], request.item.encoding_format)) = W

(***************************************************************************)
(* C8.  In every 200 answer of the embeddings endpoint prompt_tokens and   *)
(* total_tokens both equal the sum, over the source strings of the request *)
(* (a scalar string being one), of their numbers of whitespace-delimited   *)
(* tokens, whatever dimensions and encoding_format are.                    *)
(***************************************************************************)
C8_UsageCountsTokens ==
    Ok200 =>
        /\ response.usage.prompt_tokens = TotalTokens(request.item.input)
        /\ response.usage.total_tokens = response.usage.prompt_tokens

\* [" a  b", "ab"] cut to one dimension, in base64: 2 + 1 tokens
C8_Witness ==
    /\ Ok200
    /\ request.item.input = [kind |-> "list",
                             val |-> << <<" ", "a", " ", " ", "b">>, <<"a", "b">> >>]
    /\ request.item.dimensions = Some(1)
    /\ request.item.encoding_format = "base64"
    /\ response.usage.total_tokens = 3

(***************************************************************************)
(* C9.  When the backend raises for an authorized, valid embeddings        *)
(* request, the answer is 500 with an {"error": message} body: never a 200 *)
(* and never any data entry.                                               *)
(***************************************************************************)
C9_BackendFailureIs500 ==
    (request.endpoint = "embeddings" /\ request.backend = "raise") =>
        /\ response.status = 500
        /\ response.kind = "error"
        /\ response.error = BackendFailure
        /\ response.data = <<>>

C9_Witness ==
    /\ request.endpoint = "embeddings"
    /\ request.backend = "raise"
    /\ response.touched.backend
    /\ response.status = 500

(***************************************************************************)
(* C10.  For an authorized embeddings request the model is checked before  *)
(* encoding_format, and both before the backend is invoked: with a wrong   *)
(* model and an encoding_format outside {float, base64} the answer is the  *)
(* model-mismatch 400, with the right model and such an encoding_format it *)
(* is the encoding_format 400, and in both cases the backend is not        *)
(* invoked.                                                                *)
(***************************************************************************)
C10_ModelCheckedBeforeFormat ==
    (AuthorizedEmbed /\ request.item.encoding_format \notin {"float", "base64"}) =>
        /\ request.item.model # ResolvedModel => IsModelMismatch(response)
        /\ request.item.model = ResolvedModel => IsBadFormat(response)
        /\ ~response.touched.backend
        /\ request.backend = "unused"

\* a wrong model together with a bad encoding_format
C10_Witness ==
    /\ AuthorizedEmbed
    /\ request.item.encoding_format = "hex"
    /\ request.item.model # ResolvedModel
    /\ IsModelMismatch(response)

====
